---- MODULE Spec2Model ----
(***************************************************************************)
(* Model of dataproc/coco_formatter.py: COCODatasetFormatter turns the     *)
(* entries of a list of mask databases into COCO images and annotations.   *)
(*                                                                         *)
(* A binary mask is a record [h, w, px]: the raster shape and the set of   *)
(* foreground pixels <<row, col>>.  Contour coordinates lie on half-pixel  *)
(* positions, so every polygon coordinate is kept in half-pixel units      *)
(* (twice the value the program stores).  Areas and thresholds are floats  *)
(* in the program; every value that occurs is integral and is an integer   *)
(* here.                                                                   *)
(***************************************************************************)
EXTENDS Integers, Sequences, FiniteSets, TLC

\* ---------------------------------------------------------------- bounds
FrameH == 8
FrameW == 9
MaxDbs == 2
MaxEntries == 2
MaxMasks == 2
MaxArea == 26
MaxSide == 6

\* ------------------------------------------------- configuration defaults
BBOX_MIN_WIDTH == 5
BBOX_MIN_HEIGHT == 5
AREA_THRESHOLD == 25

DefaultConfig ==
    [AREA_THRESHOLD |-> AREA_THRESHOLD,
     BBOX_MIN_WIDTH |-> BBOX_MIN_WIDTH,
     BBOX_MIN_HEIGHT |-> BBOX_MIN_HEIGHT]

\* The configured category list (name, id) the formatter is built with.
object_category ==
    << [name |-> "shoe", id |-> 3], [name |-> "mug", id |-> 7] >>

\* ------------------------------------------------------------- utilities
Min(a, b) == IF a < b THEN a ELSE b
Max(a, b) == IF a > b THEN a ELSE b

\* The pairs of ps laid end to end: p1[1], p1[2], p2[1], p2[2], ...
Ravel(ps) == [i \in 1 .. 2 * Len(ps) |-> ps[(i + 1) \div 2][2 - (i % 2)]]

\* ---------------------------------------------------------- MaskGeometry
\* Pixel t of the column-major (Fortran order) flattening of the raster.
FortranBit(m, t) == IF <<t % m.h, t \div m.h>> \in m.px THEN 1 ELSE 0

\* The run lengths of the flattened raster: a run ends where the pixel
\* value changes; the value before the first pixel counts as background,
\* so a raster that starts with foreground has a first run of length 0.
RleRuns(m) ==
    LET n == m.h * m.w
        Prev(t) == IF t = 0 THEN 0 ELSE FortranBit(m, t - 1)
        starts == {t \in 0 .. n - 1 : FortranBit(m, t) # Prev(t)}
        k == Cardinality(starts)
        Start(j) == IF j = 0 THEN 0
                    ELSE IF j = k + 1 THEN n
                    ELSE CHOOSE t \in starts :
                           Cardinality({u \in starts : u < t}) = j - 1
    IN [j \in 1 .. k + 1 |-> Start(j) - Start(j - 1)]

\* mask.encode(np.asfortranarray(image_mask)): run lengths of the
\* column-major raster, the first run counting background pixels.
_get_encoded_mask(image_mask) ==
    [h |-> image_mask.h, w |-> image_mask.w, cnts |-> RleRuns(image_mask)]

RECURSIVE SumOddRuns(_, _)
SumOddRuns(cnts, j) ==
    IF j > Len(cnts) THEN 0
    ELSE (IF j % 2 = 0 THEN cnts[j] ELSE 0) + SumOddRuns(cnts, j + 1)

\* mask.area: the pixels in the foreground runs (2nd, 4th, ... run).
_get_area_of_encoded_mask(encoded_mask) == SumOddRuns(encoded_mask.cnts, 1)

\* mask.toBbox walks the run boundaries; j is the 0-based run index, cc the
\* pixels consumed so far, xp the column where the current foreground run
\* began, b the box [xs, ys, xe, ye] so far.
RECURSIVE BboxWalk(_, _, _, _, _, _)
BboxWalk(R, m, j, cc, xp, b) ==
    IF j = m THEN b
    ELSE LET cc2 == cc + R.cnts[j + 1]
             t == cc2 - (j % 2)
             y == t % R.h
             x == (t - y) \div R.h
             span == (j % 2 = 1) /\ (xp < x)
             ys0 == IF span THEN 0 ELSE b.ys
             ye0 == IF span THEN R.h - 1 ELSE b.ye
         IN BboxWalk(R, m, j + 1, cc2, IF j % 2 = 0 THEN x ELSE xp,
                     [xs |-> Min(b.xs, x), xe |-> Max(b.xe, x),
                      ys |-> Min(ys0, y), ye |-> Max(ye0, y)])

\* returns <<x, y, width, height>> (top left, extent); all 0 for no foreground
get_bounding_box(encoded_mask) ==
    LET m == (Len(encoded_mask.cnts) \div 2) * 2
        b == BboxWalk(encoded_mask, m, 0, 0, 0,
                      [xs |-> encoded_mask.w, xe |-> 0,
                       ys |-> encoded_mask.h, ye |-> 0])
    IN IF m = 0 THEN <<0, 0, 0, 0>>
       ELSE <<b.xs, b.ys, b.xe - b.xs + 1, b.ye - b.ys + 1>>

\* np.pad(image_mask, pad_width=1, constant_values=0)
Pad(image_mask) ==
    [h |-> image_mask.h + 2, w |-> image_mask.w + 2,
     px |-> {<<p[1] + 1, p[2] + 1>> : p \in image_mask.px}]

Pix(m, r, c) == IF <<r, c>> \in m.px THEN 1 ELSE 0

\* The contour segments of the 2x2 cell whose top-left pixel is (r, c):
\* one vertex on every cell edge that joins a foreground and a background
\* pixel, at its midpoint (level 0.5), in half-pixel units <<row, col>>.
\* A cell with two diagonal foreground pixels keeps them apart.
CellSegments(m, r, c) ==
    LET a == Pix(m, r, c)
        b == Pix(m, r, c + 1)
        d == Pix(m, r + 1, c)
        e == Pix(m, r + 1, c + 1)
        T == <<2 * r, 2 * c + 1>>
        B == <<2 * r + 2, 2 * c + 1>>
        L == <<2 * r + 1, 2 * c>>
        R == <<2 * r + 1, 2 * c + 2>>
        vs == (IF a # b THEN {T} ELSE {}) \cup (IF d # e THEN {B} ELSE {})
              \cup (IF a # d THEN {L} ELSE {}) \cup (IF b # e THEN {R} ELSE {})
    IN IF Cardinality(vs) = 2 THEN {vs}
       ELSE IF Cardinality(vs) = 4
            THEN (IF a = 1 THEN {{T, L}, {B, R}} ELSE {{T, R}, {L, B}})
       ELSE {}

Segments(m) ==
    UNION {CellSegments(m, r, c) : r \in 0 .. m.h - 2, c \in 0 .. m.w - 2}

LexLess(p, q) == p[1] < q[1] \/ (p[1] = q[1] /\ p[2] < q[2])
LexMin(S) == CHOOSE p \in S : \A q \in S : p = q \/ LexLess(p, q)

\* Follow the segments from the last point of ring until the start is met.
RECURSIVE TraceRing(_, _, _)
TraceRing(segs, ring, seen) ==
    LET cur == ring[Len(ring)]
        nxt == {v \in UNION {s \in segs : cur \in s} : v \notin seen}
    IN IF nxt = {} THEN Append(ring, ring[1])
       ELSE LET v == LexMin(nxt)
            IN TraceRing(segs, Append(ring, v), seen \cup {v})

RECURSIVE TraceAll(_, _)
TraceAll(segs, todo) ==
    IF todo = {} THEN <<>>
    ELSE LET s == LexMin(todo)
             ring == TraceRing(segs, <<s>>, {s})
         IN <<ring>> \o TraceAll(segs, todo \ {ring[i] : i \in 1 .. Len(ring)})

\* measure.find_contours(mask, 0.5): the iso-level rings between foreground
\* and background, each closed (first point = last point), ordered by their
\* smallest point.
find_contours(m) ==
    LET segs == Segments(m) IN TraceAll(segs, UNION segs)

\* measure.approximate_polygon: tolerance 0 returns the coordinates as given.
approximate_polygon(contour, tolerance) == contour

get_polygons(image_mask) ==
    LET padded_binary_mask == Pad(image_mask)
        found == find_contours(padded_binary_mask)
        \* np.subtract(contours, 1): one pixel is two half-pixels
        contours == [i \in 1 .. Len(found) |->
                        [k \in 1 .. Len(found[i]) |->
                            <<found[i][k][1] - 2, found[i][k][2] - 2>>]]
        Closed(contour) ==
            IF contour[1] # contour[Len(contour)]
            THEN Append(contour, contour[1]) ELSE contour
        Ring(contour) == approximate_polygon(Closed(contour), 0)
        \* np.flip(axis=1), ravel and the clamp of negative values to 0
        Seg(contour) ==
            Ravel([k \in 1 .. Len(contour) |->
                        <<Max(contour[k][2], 0), Max(contour[k][1], 0)>>])
        kept == SelectSeq([i \in 1 .. Len(contours) |-> Ring(contours[i])],
                          LAMBDA contour : ~(Len(contour) < 3))
    IN [i \in 1 .. Len(kept) |-> Seg(kept[i])]


\* --------------------------------------------------- AnnotationValidator
CheckAreaInclusive(config, ann) ==
    IF Len(ann.segmentation) = 0 THEN FALSE
    ELSE IF ann.area <= config.AREA_THRESHOLD THEN FALSE
    ELSE IF (ann.bbox[3] < config.BBOX_MIN_WIDTH)
            \/ (ann.bbox[4] < config.BBOX_MIN_HEIGHT) THEN FALSE
    ELSE TRUE

CheckWidthInclusive(config, ann) ==
    IF Len(ann.segmentation) = 0 THEN FALSE
    ELSE IF ann.area < config.AREA_THRESHOLD THEN FALSE
    ELSE IF (ann.bbox[3] <= config.BBOX_MIN_WIDTH)
            \/ (ann.bbox[4] < config.BBOX_MIN_HEIGHT) THEN FALSE
    ELSE TRUE

_check_annotation_valid(config, ann) ==
    IF Len(ann.segmentation) = 0 THEN FALSE
    ELSE IF ann.area < config.AREA_THRESHOLD THEN FALSE
    ELSE IF (ann.bbox[3] < config.BBOX_MIN_WIDTH)
            \/ (ann.bbox[4] < config.BBOX_MIN_HEIGHT) THEN FALSE
    ELSE TRUE

\* ------------------------------------------------------------ test inputs
Rect(r0, c0, h, w) ==
    {<<r, c>> : r \in r0 .. r0 + h - 1, c \in c0 .. c0 + w - 1}

Raster(px) == [h |-> FrameH, w |-> FrameW, px |-> px]

\* The rasters of the test databases; a mask is referred to by its name.
Rasters ==
    [Sq5 |-> Raster(Rect(1, 2, 5, 5)),
     Sq5Plus |-> Raster(Rect(0, 0, 5, 5) \cup {<<5, 0>>}),
     Sq5Minus |-> Raster(Rect(1, 1, 5, 5) \ {<<1, 1>>}),
     Dot |-> Raster(Rect(1, 1, 2, 2)),
     Blank |-> Raster({}),
     Tall |-> Raster(Rect(0, 1, 7, 4))]

\* What the builder derives from a mask: the area and the bounding box of
\* the encoded mask and the polygons of the raster.
MaskGeometry ==
    [m \in DOMAIN Rasters |->
        LET encoded_mask == _get_encoded_mask(Rasters[m])
        IN [area |-> _get_area_of_encoded_mask(encoded_mask),
            bbox |-> get_bounding_box(encoded_mask),
            segmentation |-> get_polygons(Rasters[m])]]

Ann(m, c) == [binary_mask |-> m, category_name |-> c]

\* The (binary_mask, category_name) pairs the entries are freely built of.
AnnotationEntries ==
    {Ann("Sq5", "shoe"), Ann("Sq5Minus", "shoe"), Ann("Sq5Plus", "cat")}

\* Annotation lists with the remaining masks and the second category.
FixedLists ==
    { <<Ann("Sq5Plus", "mug")>>,
      <<Ann("Sq5Plus", "cat"), Ann("Sq5Plus", "mug")>>,
      <<Ann("Sq5Plus", "mug"), Ann("Sq5", "shoe")>>,
      <<Ann("Blank", "shoe")>>,
      <<Ann("Tall", "mug"), Ann("Dot", "shoe")>> }

SeqsUpTo(S, n) == UNION {[1 .. k -> S] : k \in 0 .. n}

\* The entries a database can hand out: an image and its annotation list.
ImgEntries ==
    { [rgb_image |-> [shape |-> <<FrameH, FrameW, 3>>], annotation_list |-> al] :
        al \in SeqsUpTo(AnnotationEntries, MaxMasks) \cup FixedLists }

\* A database is known by its length; the lists with at most MaxDbs
\* databases and at most MaxEntries entries in all.
RECURSIVE SumSeq(_)
SumSeq(s) == IF s = <<>> THEN 0 ELSE Head(s) + SumSeq(Tail(s))

DatabaseLists ==
    {dl \in SeqsUpTo(0 .. MaxEntries, MaxDbs) : SumSeq(dl) <= MaxEntries}

\* ------------------------------------------------------------------ state
VARIABLES
    database_list,        \* the lengths of the databases still to iterate,
                          \* the database being iterated first
    entry_idx,            \* the index of the next entry in that database
    entries_fetched,      \* how many entries have been fetched so far
    _category_name2id,    \* category name -> id, built by __init__
    mask_geometry,        \* the geometry derived from each raster
    image_id, annotation_id,
    all_annotation_list, all_image_info_list,
    mask_log,             \* what became of each mask of the last entry
    img_annotation_list,  \* the annotations staged for the last entry
    image_files,          \* the paths cv2.imwrite has written
    json_file,            \* <<>> or <<document>>: the JSON file of this run
    pc,                   \* "running", "done" or "aborted"
    v_config, v_ann, v_result   \* validator under test: input and verdict

pipeline_vars ==
    <<database_list, entry_idx, entries_fetched, _category_name2id,
      mask_geometry, image_id, annotation_id, all_annotation_list,
      all_image_info_list, mask_log, img_annotation_list, image_files,
      json_file, pc>>

validator_vars == <<v_config, v_ann, v_result>>

vars == <<pipeline_vars, validator_vars>>

\* ----------------------------------------------------- AnnotationBuilder
_get_annotation_info(config, annotation_id_, image_id_, category_id, this_mask) ==
    LET g == mask_geometry[this_mask]
        annotation == [id |-> annotation_id_,
                       image_id |-> image_id_,
                       category_id |-> category_id,
                       segmentation |-> g.segmentation,
                       area |-> g.area,
                       bbox |-> g.bbox,
                       iscrowd |-> 0]
    IN [is_validity |-> _check_annotation_valid(config, annotation),
        annotation |-> annotation]

\* ----------------------------------------------------------- construction
\* __init__: later entries of the category list overwrite earlier ones.
RECURSIVE BuildName2Id(_, _)
BuildName2Id(categories, acc) ==
    IF categories = <<>> THEN acc
    ELSE LET category == Head(categories)
         IN BuildName2Id(Tail(categories),
                [n \in DOMAIN acc \cup {category.name} |->
                    IF n = category.name THEN category.id ELSE acc[n]])

base_folder == "tmp"
image_folder_path == <<base_folder, "images">>

INFO ==
    [description |-> "Dense Correspondence COCO Dataset",
     url |-> "https://github.com/RobotLocomotion/pytorch-dense-correspondence",
     version |-> "", year |-> 2018, contributor |-> "",
     date_created |-> "utcnow"]

LICENSES == << [id |-> 1, name |-> "", url |-> ""] >>

\* ------------------------------------------------------ DatasetAggregator
\* The loops move on: past the entry at index e of the first database of
\* dl, and past every database that has no entry left.
RECURSIVE Advance(_, _)
Advance(dl, e) ==
    IF dl = <<>> THEN <<dl, 0>>
    ELSE IF e < Head(dl) THEN <<dl, e>>
    ELSE Advance(Tail(dl), 0)

HasEntry == database_list # <<>>

\* "category_name not in self._category_name2id" skips the mask.
CategoryKnownAll(name2id, category_name) == TRUE

CategoryKnown(name2id, category_name) == category_name \in DOMAIN name2id

\* The category id as int; the mask loop asks only for known names.
CategoryId(name2id, category_name) ==
    IF category_name \in DOMAIN name2id THEN name2id[category_name] ELSE 0

\* The annotation id counter moves on only past an accepted annotation.
NextAnnotationIdAlways(is_validity, this_annotation_id) == this_annotation_id + 1

NextAnnotationId(is_validity, this_annotation_id) ==
    IF is_validity THEN this_annotation_id + 1 ELSE this_annotation_id

\* The loop over the annotation list of one entry: st carries the
\* annotation id counter, the staged annotations and the per-mask log.
RECURSIVE MaskLoop(_, _, _, _)
MaskLoop(name2id, annotation_list, this_image_id, st) ==
    IF annotation_list = <<>> THEN st
    ELSE
      LET annotation_entry == Head(annotation_list)
          category_name == annotation_entry.category_name
      IN IF ~CategoryKnown(name2id, category_name)
         THEN MaskLoop(name2id, Tail(annotation_list), this_image_id,
                [st EXCEPT !.log = Append(@,
                    [category_name |-> category_name, outcome |-> "skipped",
                     area |-> 0, bbox |-> <<0, 0, 0, 0>>, polygons |-> 0])])
         ELSE
           LET category_id == CategoryId(name2id, category_name)
               r == _get_annotation_info(DefaultConfig, st.annotation_id,
                        this_image_id, category_id, annotation_entry.binary_mask)
               entry == [category_name |-> category_name,
                         outcome |-> IF r.is_validity THEN "accepted" ELSE "rejected",
                         area |-> r.annotation.area,
                         bbox |-> r.annotation.bbox,
                         polygons |-> Len(r.annotation.segmentation)]
           IN MaskLoop(name2id, Tail(annotation_list), this_image_id,
                [annotation_id |-> NextAnnotationId(r.is_validity, st.annotation_id),
                 img_annotation_list |->
                    IF r.is_validity
                    THEN Append(st.img_annotation_list, r.annotation)
                    ELSE st.img_annotation_list,
                 log |-> Append(st.log, entry)])

ProcessMasks(name2id, entry, next_annotation_id, this_image_id) ==
    MaskLoop(name2id, entry.annotation_list, this_image_id,
             [annotation_id |-> next_annotation_id,
              img_annotation_list |-> <<>>, log |-> <<>>])

\* "{:05}".format(n): the decimal digits of n, zero-padded to 5 characters
DigitChar == <<"0", "1", "2", "3", "4", "5", "6", "7", "8", "9">>

RECURSIVE Digits(_)
Digits(n) ==
    IF n < 10 THEN <<DigitChar[n + 1]>>
    ELSE Append(Digits(n \div 10), DigitChar[(n % 10) + 1])

RECURSIVE ZeroPad(_, _)
ZeroPad(s, width) == IF Len(s) >= width THEN s ELSE ZeroPad(<<"0">> \o s, width)

PngName(n) == ZeroPad(Digits(n), 5) \o <<".", "p", "n", "g">>

\* os.path.join(folder, name) and os.path.basename(path)
PathJoin(folder, name) == Append(folder, name)
Basename(path) == path[Len(path)]

ImageInfoOffByOne(this_image_id, width, height, file_name) ==
    [id |-> this_image_id + 1, width |-> width, height |-> height,
     file_name |-> file_name, license |-> 1, flickr_url |-> "",
     coco_url |-> "", date_captured |-> "utcnow"]

_get_image_info(this_image_id, width, height, file_name) ==
    [id |-> this_image_id, width |-> width, height |-> height,
     file_name |-> file_name, license |-> 1, flickr_url |-> "",
     coco_url |-> "", date_captured |-> "utcnow"]

_get_coco_output_from_images_and_annotations(images, annotations) ==
    [info |-> INFO, licenses |-> LICENSES, categories |-> object_category,
     images |-> images, annotations |-> annotations]

KeepEntryAlways(staged) == TRUE

\* An entry is kept when at least one annotation was staged for it.
KeepEntry(staged) == ~(Len(staged) = 0)

\* The bookkeeping every iteration of the entry loop shares.
Fetch(entry, st) ==
    /\ pc = "running"
    /\ HasEntry
    /\ entries_fetched' = entries_fetched + 1
    /\ mask_log' = st.log
    /\ img_annotation_list' = st.img_annotation_list
    /\ annotation_id' = st.annotation_id
    /\ UNCHANGED <<_category_name2id, mask_geometry, json_file, validator_vars>>

Step ==
    LET p == Advance(database_list, entry_idx + 1)
    IN database_list' = p[1] /\ entry_idx' = p[2]

SkipImageBurnsId ==
    \E entry \in ImgEntries :
      LET st == ProcessMasks(_category_name2id, entry, annotation_id, image_id)
      IN /\ Fetch(entry, st)
         /\ ~KeepEntry(st.img_annotation_list)
         /\ Step
         /\ image_id' = image_id + 1
         /\ UNCHANGED <<all_annotation_list, all_image_info_list,
                        image_files, pc>>

\* An entry none of whose masks was accepted: continue with the next one.
SkipImage ==
    \E entry \in ImgEntries :
      LET st == ProcessMasks(_category_name2id, entry, annotation_id, image_id)
      IN /\ Fetch(entry, st)
         /\ ~KeepEntry(st.img_annotation_list)
         /\ Step
         /\ UNCHANGED <<image_id, all_annotation_list, all_image_info_list,
                        image_files, pc>>

\* An entry with an accepted mask: its annotations join the global list,
\* its image is written and described.  cv2.imwrite returns whether the
\* file was written; the program does not look at the result.
KeepImage ==
    \E entry \in ImgEntries, written \in BOOLEAN :
      LET st == ProcessMasks(_category_name2id, entry, annotation_id, image_id)
          height == entry.rgb_image.shape[1]
          width == entry.rgb_image.shape[2]
          rgb_output_path == PathJoin(image_folder_path, PngName(image_id))
          rgb_relative_path == Basename(rgb_output_path)
          image_info == _get_image_info(image_id, width, height, rgb_relative_path)
      IN /\ Fetch(entry, st)
         /\ KeepEntry(st.img_annotation_list)
         /\ all_annotation_list' = all_annotation_list \o st.img_annotation_list
         /\ image_files' = IF written THEN image_files \cup {rgb_output_path}
                           ELSE image_files
         /\ all_image_info_list' = Append(all_image_info_list, image_info)
         /\ image_id' = image_id + 1
         /\ Step
         /\ UNCHANGED pc

\* cv2.imwrite raises (cv2.error): the exception leaves process_db_list.
ImwriteRaises ==
    \E entry \in ImgEntries :
      LET st == ProcessMasks(_category_name2id, entry, annotation_id, image_id)
      IN /\ Fetch(entry, st)
         /\ KeepEntry(st.img_annotation_list)
         /\ all_annotation_list' = all_annotation_list \o st.img_annotation_list
         /\ pc' = "aborted"
         /\ UNCHANGED <<database_list, entry_idx, image_id,
                        all_image_info_list, image_files>>

\* After the loops: the document is assembled and dumped to the JSON file.
WriteJson ==
    /\ pc = "running"
    /\ ~HasEntry
    /\ json_file' = << _get_coco_output_from_images_and_annotations(
                          all_image_info_list, all_annotation_list) >>
    /\ pc' = "done"
    /\ UNCHANGED <<database_list, entry_idx, entries_fetched,
                   _category_name2id, mask_geometry, image_id, annotation_id,
                   all_annotation_list, all_image_info_list, mask_log,
                   img_annotation_list, image_files, validator_vars>>

\* open() of the JSON file raises: nothing is written.
WriteJsonRaises ==
    /\ pc = "running"
    /\ ~HasEntry
    /\ pc' = "aborted"
    /\ UNCHANGED <<database_list, entry_idx, entries_fetched,
                   _category_name2id, mask_geometry, image_id, annotation_id,
                   all_annotation_list, all_image_info_list, mask_log,
                   img_annotation_list, image_files, json_file, validator_vars>>

NoAnnotation ==
    [id |-> 0, image_id |-> 0, category_id |-> 0, segmentation |-> <<>>,
     area |-> 0, bbox |-> <<0, 0, 0, 0>>, iscrowd |-> 0]

ValidatorIdle ==
    /\ v_config = DefaultConfig
    /\ v_ann = NoAnnotation
    /\ v_result = <<>>

InitPipeline(dl) ==
    /\ database_list = Advance(dl, 0)[1]
    /\ entry_idx = 0
    /\ entries_fetched = 0
    /\ _category_name2id = BuildName2Id(object_category, <<>>)
    /\ mask_geometry = MaskGeometry
    /\ image_id = 0
    /\ annotation_id = 0
    /\ all_annotation_list = <<>>
    /\ all_image_info_list = <<>>
    /\ mask_log = <<>>
    /\ img_annotation_list = <<>>
    /\ image_files = {}
    /\ json_file = <<>>
    /\ pc = "running"

Init ==
    /\ \E dl \in DatabaseLists : InitPipeline(dl)
    /\ ValidatorIdle

Next ==
    \/ SkipImage
    \/ KeepImage
    \/ ImwriteRaises
    \/ WriteJson
    \/ WriteJsonRaises

Spec == Init /\ [][Next]_vars

\* ------------------------------------------------- validator, on its own
\* Every threshold the configuration may carry next to the defaults.
ValidatorConfigs ==
    { DefaultConfig,
      [AREA_THRESHOLD |-> 10, BBOX_MIN_WIDTH |-> 3, BBOX_MIN_HEIGHT |-> 4] }

\* Annotations of every area and box extent, with and without a polygon.
ValidatorInputs ==
    { [NoAnnotation EXCEPT !.segmentation = seg, !.area = a,
                           !.bbox = <<1, 2, w, h>>] :
        seg \in {<<>>, <<<<0, 0, 2, 0, 2, 2, 0, 0>>>>},
        a \in 0 .. MaxArea, w \in 0 .. MaxSide, h \in 0 .. MaxSide }
    \cup {NoAnnotation}

\* One call of the validator on a fresh formatter.
CheckValid ==
    /\ v_result = <<>>
    /\ \E config \in ValidatorConfigs, ann \in ValidatorInputs :
          /\ v_config' = config
          /\ v_ann' = ann
          /\ v_result' = << _check_annotation_valid(config, ann) >>
    /\ UNCHANGED pipeline_vars

InitValidator ==
    /\ InitPipeline(<<>>)
    /\ ValidatorIdle

NextValidator == CheckValid

SpecValidator == InitValidator /\ [][NextValidator]_vars

\* ------------------------------------------------------------ properties
Document == json_file[1]

IdsDense(images, annotations) ==
    /\ \A i \in 1 .. Len(images) : images[i].id = i - 1
    /\ \A i \in 1 .. Len(annotations) : annotations[i].id = i - 1

\* C1: the i-th image and the i-th annotation (counting from 0) carry id i,
\* in the lists as they grow and in the document written at the end: the
\* ids are 0 .. len-1, increasing, without gaps or reuse.
C1_DenseIds ==
    /\ IdsDense(all_image_info_list, all_annotation_list)
    /\ json_file # <<>> =>
          IdsDense(Document.images, Document.annotations)

C1_Witness ==
    /\ json_file # <<>>
    /\ Len(Document.images) >= 2
    /\ Len(Document.annotations) >= 3
    /\ \E i \in 1 .. Len(mask_log) : mask_log[i].outcome # "accepted"

Grouped(images, annotations) ==
    /\ \A i \in 1 .. Len(images) :
          \E k \in 1 .. Len(annotations) : annotations[k].image_id = images[i].id
    /\ \A k \in 1 .. Len(annotations) - 1 :
          annotations[k].image_id <= annotations[k + 1].image_id

\* C10: every image is referenced by an annotation, there are never more
\* images than entries fetched, and image_id never decreases along the
\* annotation list, so the annotations of one image are contiguous.
C10_Grouped ==
    /\ Grouped(all_image_info_list, all_annotation_list)
    /\ Len(all_image_info_list) <= entries_fetched
    /\ json_file # <<>> => Grouped(Document.images, Document.annotations)

C10_Witness ==
    /\ json_file # <<>>
    /\ Len(Document.images) = 2
    /\ Len(Document.annotations) = 3
    /\ Document.annotations[2].image_id = 0
    /\ Document.annotations[3].image_id = 1


\* The image file an ImageInfo names.
FileOf(image_info) == PathJoin(image_folder_path, image_info.file_name)

Accepted(log) == SelectSeq(log, LAMBDA e : e.outcome = "accepted")

\* C2: every annotation of the document names the id of an image of the
\* document, and the annotations staged for an entry that was kept carry
\* the id of the image appended for that entry (the last one) and are the
\* end of the annotation list.
C2_ReferentialIntegrity ==
    /\ json_file # <<>> =>
          \A k \in 1 .. Len(Document.annotations) :
             \E i \in 1 .. Len(Document.images) :
                Document.images[i].id = Document.annotations[k].image_id
    /\ (pc # "aborted" /\ img_annotation_list # <<>>) =>
          LET n == Len(all_image_info_list)
              m == Len(all_annotation_list)
              s == Len(img_annotation_list)
          IN /\ n >= 1 /\ m >= s
             /\ SubSeq(all_annotation_list, m - s + 1, m) = img_annotation_list
             /\ \A k \in 1 .. s :
                   img_annotation_list[k].image_id = all_image_info_list[n].id

C2_Witness ==
    /\ json_file # <<>>
    /\ Len(Document.images) = 2
    /\ Len(img_annotation_list) = 2
    /\ img_annotation_list[1].image_id = 1

\* C3: a step that fetches an entry none of whose masks is accepted leaves
\* the image list, the image id, the annotation id, the annotation list
\* and the image files as they were and does not stop the run; an image
\* that is appended carries the image id of the state before.
C3_DropEmptyImage ==
    [][ /\ (/\ entries_fetched' = entries_fetched + 1
            /\ \A i \in 1 .. Len(mask_log') : mask_log'[i].outcome # "accepted")
           => /\ all_image_info_list' = all_image_info_list
              /\ image_id' = image_id
              /\ annotation_id' = annotation_id
              /\ all_annotation_list' = all_annotation_list
              /\ image_files' = image_files
              /\ pc' = pc
        /\ Len(all_image_info_list') > Len(all_image_info_list)
           => all_image_info_list'[Len(all_image_info_list')].id = image_id
      ]_vars

C3_Witness ==
    /\ entries_fetched = 2
    /\ Len(all_image_info_list) = 1
    /\ all_image_info_list[1].id = 0
    /\ img_annotation_list # <<>>
    /\ pc = "running"

AllElseEqual(e) ==
    /\ e.outcome # "skipped"
    /\ e.polygons > 0
    /\ e.bbox[3] >= BBOX_MIN_WIDTH
    /\ e.bbox[4] >= BBOX_MIN_HEIGHT

\* C4 as claimed: all else equal, a mask of area exactly AREA_THRESHOLD is
\* rejected and a mask of a larger area is accepted.
C4_AsClaimed ==
    \A i \in 1 .. Len(mask_log) :
       AllElseEqual(mask_log[i]) =>
          /\ mask_log[i].area = AREA_THRESHOLD => mask_log[i].outcome = "rejected"
          /\ mask_log[i].area > AREA_THRESHOLD => mask_log[i].outcome = "accepted"

\* C4 amended: all else equal, a mask of area exactly AREA_THRESHOLD is
\* accepted, as is a mask of a larger area; only a smaller area is rejected.
C4_ThresholdBoundary ==
    \A i \in 1 .. Len(mask_log) :
       AllElseEqual(mask_log[i]) =>
          /\ mask_log[i].area = AREA_THRESHOLD => mask_log[i].outcome = "accepted"
          /\ mask_log[i].area > AREA_THRESHOLD => mask_log[i].outcome = "accepted"
          /\ mask_log[i].area < AREA_THRESHOLD => mask_log[i].outcome = "rejected"

C4_Witness ==
    \E i, j \in 1 .. Len(mask_log) :
       /\ AllElseEqual(mask_log[i]) /\ AllElseEqual(mask_log[j])
       /\ mask_log[i].area = AREA_THRESHOLD /\ mask_log[i].outcome = "accepted"
       /\ mask_log[j].area = AREA_THRESHOLD + 1 /\ mask_log[j].outcome = "accepted"

\* C5 as claimed: a document is written only if every image it lists was
\* written to its file.
C5_AsClaimed ==
    json_file # <<>> =>
       \A i \in 1 .. Len(Document.images) :
          FileOf(Document.images[i]) \in image_files

\* C6 as claimed: no document exists before the run is done, and a run
\* that aborted after k images were kept leaves the files of ids 0 .. k-1
\* and no document.
C6_AsClaimed ==
    /\ pc # "done" => json_file = <<>>
    /\ pc = "aborted" =>
          image_files =
            {PathJoin(image_folder_path, PngName(i)) :
                i \in 0 .. Len(all_image_info_list) - 1}

\* C7: a mask of a category the category list does not name is skipped,
\* every other mask of the entry is still handled, in order: the staged
\* annotations are the accepted masks in order, with consecutive ids up to
\* the annotation id counter and the category id the list gives the name.
C7_CategoryFiltering ==
    LET names == {object_category[j].name : j \in 1 .. Len(object_category)}
        acc == Accepted(mask_log)
    IN /\ \A i \in 1 .. Len(mask_log) :
             (mask_log[i].category_name \notin names)
                <=> (mask_log[i].outcome = "skipped")
       /\ Len(acc) = Len(img_annotation_list)
       /\ \A k \in 1 .. Len(acc) :
             /\ img_annotation_list[k].area = acc[k].area
             /\ img_annotation_list[k].bbox = acc[k].bbox
             /\ img_annotation_list[k].id = annotation_id - Len(acc) + k - 1
             /\ \E j \in 1 .. Len(object_category) :
                   /\ object_category[j].name = acc[k].category_name
                   /\ object_category[j].id = img_annotation_list[k].category_id
       /\ \A k \in 1 .. Len(all_annotation_list) :
             \E j \in 1 .. Len(object_category) :
                object_category[j].id = all_annotation_list[k].category_id

C7_Witness ==
    /\ Len(mask_log) = 2
    /\ mask_log[1].outcome = "skipped"
    /\ mask_log[2].outcome = "accepted"
    /\ mask_log[2].category_name = "mug"
    /\ img_annotation_list[1].category_id = 7
    /\ pc = "running"

\* C8: the verdict is TRUE exactly when the segmentation is not empty, the
\* area is not below the area threshold and neither the width nor the
\* height of the box is below its minimum.
C8_ValidatorTable ==
    v_result # <<>> =>
       v_result[1] =
          ( /\ v_ann.segmentation # <<>>
            /\ ~(v_ann.area < v_config.AREA_THRESHOLD)
            /\ ~(v_ann.bbox[3] < v_config.BBOX_MIN_WIDTH)
            /\ ~(v_ann.bbox[4] < v_config.BBOX_MIN_HEIGHT) )

C8_Witness ==
    /\ v_result = <<TRUE>>
    /\ v_config = DefaultConfig
    /\ v_ann.bbox[3] = BBOX_MIN_WIDTH
    /\ v_ann.bbox[4] = BBOX_MIN_HEIGHT

\* C9 as claimed: there is one image file per image of the list, the file
\* name of the image with id i is i in 5 digits followed by .png, and that
\* file has been written.
C9_AsClaimed ==
    /\ Cardinality(image_files) = Len(all_image_info_list)
    /\ \A i \in 1 .. Len(all_image_info_list) :
          /\ all_image_info_list[i].file_name
                = <<"0", "0", "0", "0", DigitChar[i]>> \o <<".", "p", "n", "g">>
          /\ FileOf(all_image_info_list[i]) \in image_files

====
